---------------------------- MODULE Spec2Model ----------------------------
(***************************************************************************)
(* Model of httppal's main (src/main.go): one command-line run that builds *)
(* a single HTTP request from flags, sends it through net/http's client    *)
(* and renders the response.                                               *)
(*                                                                         *)
(* Strings are sequences of atoms (short strings): " " is whitespace, ":"  *)
(* is the colon the code splits on, every other atom is a run of ordinary  *)
(* characters.  The -auth value is a sequence of single characters, so     *)
(* that base64 can be computed on its bytes.                               *)
(*                                                                         *)
(* src/main.go calls json.Unmarshal and json.MarshalIndent; the model      *)
(* reads json as the standard encoding/json package.                       *)
(***************************************************************************)
EXTENDS Integers, Sequences, FiniteSets, TLC

(***************************************************************************)
(* Bounds of the model.                                                    *)
(***************************************************************************)
MaxAuthLen == 2
MaxArgs == 2
\* Granularity of the model's clock, in seconds: every network step takes a
\* positive whole number of clock steps.
TimeStep == 10

\* Timeout: 30 * time.Second, in seconds.
Timeout == 30
Deadline == Timeout \div TimeStep

(***************************************************************************)
(* strings.SplitN(s, ":", 2), strings.TrimSpace                            *)
(***************************************************************************)
RECURSIVE IndexFrom(_, _, _)
IndexFrom(s, c, k) ==
    IF k > Len(s) THEN 0
    ELSE IF s[k] = c THEN k
    ELSE IndexFrom(s, c, k + 1)

Index(s, c) == IndexFrom(s, c, 1)

RECURSIVE LastIndexFrom(_, _, _)
LastIndexFrom(s, c, k) ==
    IF k < 1 THEN 0
    ELSE IF s[k] = c THEN k
    ELSE LastIndexFrom(s, c, k - 1)

SplitAt(s, k) ==
    IF k = 0 THEN << s >>
    ELSE << SubSeq(s, 1, k - 1), SubSeq(s, k + 1, Len(s)) >>

\* A split at the last colon instead of the first.
SplitN2_last(s) == SplitAt(s, LastIndexFrom(s, ":", Len(s)))

\* A missing colon taken as an empty second part.
SplitN2_lenient(s) ==
    IF Index(s, ":") = 0 THEN << s, << >> >> ELSE SplitAt(s, Index(s, ":"))

SplitN2(s) == SplitAt(s, Index(s, ":"))

RECURSIVE TrimLeft(_)
TrimLeft(s) ==
    IF s # << >> /\ Head(s) = " " THEN TrimLeft(Tail(s)) ELSE s

RECURSIVE TrimRight(_)
TrimRight(s) ==
    IF s # << >> /\ s[Len(s)] = " " THEN TrimRight(SubSeq(s, 1, Len(s) - 1)) ELSE s

TrimSpace(s) == TrimRight(TrimLeft(s))

(***************************************************************************)
(* base64.StdEncoding.EncodeToString over the bytes of a string            *)
(***************************************************************************)
Byte(c) ==
    CASE c = "u" -> 117
      [] c = ":" -> 58
      [] OTHER   -> 63

Bytes(s) == [k \in 1..Len(s) |-> Byte(s[k])]

B64Alphabet ==
    << "A","B","C","D","E","F","G","H","I","J","K","L","M","N","O","P",
       "Q","R","S","T","U","V","W","X","Y","Z","a","b","c","d","e","f",
       "g","h","i","j","k","l","m","n","o","p","q","r","s","t","u","v",
       "w","x","y","z","0","1","2","3","4","5","6","7","8","9","+","/" >>

B64Char(n) == B64Alphabet[n + 1]

RECURSIVE EncodeToString(_)
EncodeToString(b) ==
    IF Len(b) = 0 THEN << >>
    ELSE IF Len(b) = 1 THEN
        << B64Char(b[1] \div 4), B64Char((b[1] % 4) * 16), "=", "=" >>
    ELSE IF Len(b) = 2 THEN
        << B64Char(b[1] \div 4),
           B64Char((b[1] % 4) * 16 + b[2] \div 16),
           B64Char((b[2] % 16) * 4), "=" >>
    ELSE
        << B64Char(b[1] \div 4),
           B64Char((b[1] % 4) * 16 + b[2] \div 16),
           B64Char((b[2] % 16) * 4 + b[3] \div 64),
           B64Char(b[3] % 64) >> \o EncodeToString(SubSeq(b, 4, Len(b)))

(***************************************************************************)
(* Command line: the sets the flags and arguments are drawn from           *)
(***************************************************************************)
RECURSIVE SeqsUpTo(_, _)
SeqsUpTo(S, n) ==
    IF n = 0 THEN { << >> }
    ELSE LET shorter == SeqsUpTo(S, n - 1)
         IN  shorter \cup { Append(s, x) : s \in shorter, x \in S }

\* flag.String("url", "", ...): the default, a URL that parses, one that does not
UrlPool == { << >>, << "http", ":", "//h/" >>, << ":", "//h/" >> }

\* flag.String("method", "GET", ...): the default, an empty method, another
\* method, and one that is no token
DefaultMethod == << "GET" >>
MethodPool == { DefaultMethod, << >>, << "POST" >>, << "GE", " ", "T" >> }

\* flag.String("file", "", ...)
FilePool == { << >>, << "body.txt" >> }

\* flag.String("auth", "", ...)
AuthPool == SeqsUpTo({ "u", ":" }, MaxAuthLen)

\* flag.Args(): the positional header arguments
ArgPool ==
    { << "X-A", ":", "v" >>,
      << " ", "x-a", " ", ":", " ", "v", ":", "w", " " >>,
      << "X-A" >>,
      << "Authorization", ":", "x" >> }

ArgsPool == SeqsUpTo(ArgPool, MaxArgs)


(***************************************************************************)
(* encoding/json: a response body is a sequence of tokens                  *)
(***************************************************************************)
StrToks == { "\"a\"", "\"b\"" }
NumToks == { "1", "1.0" }
LitToks == { "true", "null" }
ScalarToks == StrToks \cup NumToks \cup LitToks

\* The response bodies the server may send.
BodyPool ==
    { << "{", "\"b\"", ":", "1.0", ",", "\"a\"", ":", "1", "}" >>,
      << "{", "\"a\"", ":", "{", "\"b\"", ":", "[", "1", ",", "true", "]", "}", ",", "\"a\"", ":", "[", "]", "}" >>,
      << "{", "\"a\"", ":", "{", "\"b\"", ":", "[", "1", ",", "null", "]", "}", "}" >>,
      << "{", "}" >>,
      << "[", "1", ",", "1.0", "]" >>,
      << "\"a\"" >>,
      << "1" >>,
      << "true" >>,
      << "null" >>,
      << "not", "json" >>,
      << "{", "\"a\"", ":", "1", "," >>,
      << >> }


\* The keys of a map in the order MarshalIndent writes them (sorted).
KeyOrder == << "\"a\"", "\"b\"" >>

Kind(c) ==
    IF c \in StrToks THEN "string"
    ELSE IF c \in NumToks THEN "number"
    ELSE IF c = "true" THEN "bool"
    ELSE "null"

NullValue == [t |-> "null", s |-> "null", m |-> << >>]
SyntaxError == [ok |-> FALSE, v |-> NullValue, n |-> 0]

\* F applied to the value of v, v being evaluated once.
Let(v, F(_)) == CHOOSE y \in { F(r) : r \in { v } } : TRUE

\* The scanner and decoder: the value that starts at token i, and the index
\* of the token after it.
RECURSIVE ParseValue(_, _)
RECURSIVE ParseMembers(_, _, _)
RECURSIVE ParseElems(_, _, _)

ParseValue(toks, i) ==
    IF i > Len(toks) THEN SyntaxError
    ELSE IF toks[i] \in ScalarToks THEN
        [ok |-> TRUE, v |-> [t |-> Kind(toks[i]), s |-> toks[i], m |-> << >>], n |-> i + 1]
    ELSE IF toks[i] = "{" THEN
        IF i + 1 <= Len(toks) /\ toks[i + 1] = "}" THEN
            [ok |-> TRUE, v |-> [t |-> "object", s |-> "", m |-> << >>], n |-> i + 2]
        ELSE ParseMembers(toks, i + 1, << >>)
    ELSE IF toks[i] = "[" THEN
        IF i + 1 <= Len(toks) /\ toks[i + 1] = "]" THEN
            [ok |-> TRUE, v |-> [t |-> "array", s |-> "", m |-> << >>], n |-> i + 2]
        ELSE ParseElems(toks, i + 1, << >>)
    ELSE SyntaxError

ParseMembers(toks, i, acc) ==
    IF i + 1 > Len(toks) \/ toks[i] \notin StrToks \/ toks[i + 1] # ":" THEN SyntaxError
    ELSE Let(ParseValue(toks, i + 2), LAMBDA r :
             IF ~r.ok \/ r.n > Len(toks) THEN SyntaxError
             ELSE IF toks[r.n] = "}" THEN
                 [ok |-> TRUE,
                  v |-> [t |-> "object", s |-> "", m |-> Append(acc, [k |-> toks[i], v |-> r.v])],
                  n |-> r.n + 1]
             ELSE IF toks[r.n] = "," THEN
                 ParseMembers(toks, r.n + 1, Append(acc, [k |-> toks[i], v |-> r.v]))
             ELSE SyntaxError)

ParseElems(toks, i, acc) ==
    Let(ParseValue(toks, i), LAMBDA r :
        IF ~r.ok \/ r.n > Len(toks) THEN SyntaxError
        ELSE IF toks[r.n] = "]" THEN
            [ok |-> TRUE, v |-> [t |-> "array", s |-> "", m |-> Append(acc, r.v)], n |-> r.n + 1]
        ELSE IF toks[r.n] = "," THEN ParseElems(toks, r.n + 1, Append(acc, r.v))
        ELSE SyntaxError)

\* checkValid: the whole input is one JSON value.
Parse(toks) ==
    Let(ParseValue(toks, 1), LAMBDA r :
        IF r.ok /\ r.n = Len(toks) + 1 THEN r ELSE SyntaxError)

RECURSIVE LastWith(_, _, _)
LastWith(m, k, i) ==
    IF m[i].k = k THEN m[i].v ELSE LastWith(m, k, i - 1)

\* strconv's shortest formatting of the float64 a number decodes to.
FormatFloat(c) == IF c = "1.0" THEN "1" ELSE c

\* A decoded value (interface{}): an object becomes a map, one entry per
\* key (the last occurrence wins) held in key order; a number a float64.
RECURSIVE Decode(_)
Decode(v) ==
    IF v.t = "object" THEN
        LET keys == SelectSeq(KeyOrder, LAMBDA k : \E i \in 1..Len(v.m) : v.m[i].k = k)
        IN  [t |-> "object", s |-> "",
             m |-> [j \in 1..Len(keys) |->
                      [k |-> keys[j], v |-> Decode(LastWith(v.m, keys[j], Len(v.m)))]]]
    ELSE IF v.t = "array" THEN
        [t |-> "array", s |-> "", m |-> [j \in 1..Len(v.m) |-> Decode(v.m[j])]]
    ELSE IF v.t = "number" THEN [v EXCEPT !.s = FormatFloat(v.s)]
    ELSE v

\* The error of Unmarshal dropped: the map is left nil.
Unmarshal_ignoresError(body) ==
    LET r == Parse(body)
    IN  IF r.ok /\ r.v.t = "object"
        THEN [err |-> "", data |-> [nil |-> FALSE, v |-> Decode(r.v)]]
        ELSE [err |-> "", data |-> [nil |-> TRUE, v |-> NullValue]]

\* var data map[string]interface{}
NilMap == [nil |-> TRUE, v |-> NullValue]

\* json.Unmarshal(body, &data): a syntax error, or a value that is not an
\* object or null (it cannot be stored in a map), is an error; null leaves
\* the map nil.
Unmarshal(body) ==
    Let(Parse(body), LAMBDA r :
        IF ~r.ok THEN [err |-> "syntax", data |-> NilMap]
        ELSE IF r.v.t = "object" THEN [err |-> "", data |-> [nil |-> FALSE, v |-> Decode(r.v)]]
        ELSE IF r.v.t = "null" THEN [err |-> "", data |-> NilMap]
        ELSE [err |-> "type", data |-> NilMap])

\* The indent string "  " of MarshalIndent(data, "", "  "), in spaces.
Indent == 2

\* The lines of a value written at a nesting depth, after the tokens `pre`
\* (a key and its colon) and before the tokens `post` (a comma).
RECURSIVE Lines(_, _, _, _)
RECURSIVE MemberLines(_, _, _)
Lines(v, depth, pre, post) ==
    IF v.t \notin { "object", "array" } THEN
        << [ind |-> Indent * depth, toks |-> pre \o << v.s >> \o post] >>
    ELSE LET open == IF v.t = "object" THEN "{" ELSE "["
             close == IF v.t = "object" THEN "}" ELSE "]"
         IN  IF v.m = << >> THEN
                 << [ind |-> Indent * depth, toks |-> pre \o << open, close >> \o post] >>
             ELSE << [ind |-> Indent * depth, toks |-> pre \o << open >>] >>
                  \o MemberLines(v, depth + 1, 1)
                  \o << [ind |-> Indent * depth, toks |-> << close >> \o post] >>

MemberLines(v, depth, i) ==
    IF i > Len(v.m) THEN << >>
    ELSE LET post == IF i < Len(v.m) THEN << "," >> ELSE << >>
         IN  (IF v.t = "object"
              THEN Lines(v.m[i].v, depth, << v.m[i].k, ":" >>, post)
              ELSE Lines(v.m[i], depth, << >>, post))
             \o MemberLines(v, depth, i + 1)

\* json.MarshalIndent(data, "", "  "): a nil map is written as null.
MarshalIndent(data) ==
    IF data.nil THEN << [ind |-> 0, toks |-> << "null" >>] >>
    ELSE Lines(data.v, 0, << >>, << >>)

(***************************************************************************)
(* net/url, net/http: the parts of the library main relies on              *)
(***************************************************************************)
\* url.Parse fails on a string whose first character is the colon
\* ("missing protocol scheme").
UrlParseErr(u) == u # << >> /\ u[1] = ":"

\* http.NewRequest's validMethod: a method is a token, it holds no space.
ValidMethod(m) == \A j \in 1..Len(m) : m[j] # " "

\* textproto.CanonicalMIMEHeaderKey
Upper(a) == IF a = "x-a" THEN "X-A" ELSE a
Canon(name) == [j \in 1..Len(name) |-> Upper(name[j])]

\* http.Header: nil, or a map from canonical names to values, held as a set
\* of << name, value >> pairs with one pair per name.
NilHeader == [nil |-> TRUE, m |-> { }]
EmptyHeader == [nil |-> FALSE, m |-> { }]

\* Header.Set on a non-nil map: the value replaces any the name has.
HeaderSet(h, k, v) ==
    [h EXCEPT !.m = { p \in h.m : p[1] # Canon(k) } \cup { << Canon(k), v >> }]

HeaderGet(h, k) == { p[2] : p \in { q \in h.m : q[1] = Canon(k) } }

\* The responses the server may answer a request with.  A redirect is a
\* response the client's redirect handling acts on: a 301 or 302 that
\* carries a Location.
ResponsePool ==
    { [Status |-> "302 Found", StatusCode |-> 302, ProtoMajor |-> 1, ProtoMinor |-> 1,
       Header |-> ("Location" :> << "/next" >>)],
      [Status |-> "301 Moved Permanently", StatusCode |-> 301, ProtoMajor |-> 2, ProtoMinor |-> 0,
       Header |-> ("Location" :> << "/moved" >>) @@ ("Server" :> << "s" >>)],
      [Status |-> "200 OK", StatusCode |-> 200, ProtoMajor |-> 1, ProtoMinor |-> 1,
       Header |-> ("Content-Type" :> << "application/json" >>)
                  @@ ("Set-Cookie" :> << "a=1", "b=2" >>)],
      [Status |-> "404 Not Found", StatusCode |-> 404, ProtoMajor |-> 2, ProtoMinor |-> 0,
       Header |-> << >>] }

IsRedirect(r) == r.StatusCode \in { 301, 302 } /\ "Location" \in DOMAIN r.Header

NoResponse ==
    [Status |-> "", StatusCode |-> 0, ProtoMajor |-> 0, ProtoMinor |-> 0, Header |-> << >>]

(***************************************************************************)
(* State of one run                                                        *)
(***************************************************************************)
VARIABLES
    urlStr, method, reqBodyFile, followRedirects, authStr, args, \* flag.Parse()
    pc,          \* the statement main is at
    file,        \* the body file's handle: "nil", "open" or "closed"
    auth,        \* *AuthParams
    reqParams,   \* *RequestParams
    i,           \* the index of the header-argument loop
    req,         \* the *http.Request
    nreq,        \* the requests the client has issued
    elapsed,     \* clock steps since client.Do was called
    hops,        \* the responses the client has received, in order
    resp,        \* the response client.Do returned
    respBody,    \* resp.Body: "nil", "open" or "closed"
    body,        \* the bytes ReadAll returned
    data,        \* the map the body is unmarshalled into
    out,         \* standard output, line by line
    stderr,      \* standard error
    exitCode     \* the exit status, -1 while the process runs

flags == << urlStr, method, reqBodyFile, followRedirects, authStr, args >>
vars == << urlStr, method, reqBodyFile, followRedirects, authStr, args, pc, file,
           auth, reqParams, i, req, nreq, elapsed, hops, resp, respBody, body,
           data, out, stderr, exitCode >>

NilAuth == [nil |-> TRUE, Username |-> << >>, Password |-> << >>]
NoParams == [Method |-> << >>, FollowRedirects |-> FALSE, Auth |-> NilAuth, Headers |-> NilHeader]
NoRequest == [Method |-> << >>, Body |-> FALSE, Header |-> NilHeader]

\* The process starts with every flag at its default and no arguments read.
Init ==
    /\ urlStr = << >>
    /\ method = DefaultMethod
    /\ reqBodyFile = << >>
    /\ followRedirects = FALSE
    /\ authStr = << >>
    /\ args = << >>
    /\ pc = "flags"
    /\ file = "nil"
    /\ auth = NilAuth
    /\ reqParams = NoParams
    /\ i = 0
    /\ req = NoRequest
    /\ nreq = 0
    /\ elapsed = 0
    /\ hops = << >>
    /\ resp = NoResponse
    /\ respBody = "nil"
    /\ body = << >>
    /\ data = NilMap
    /\ out = << >>
    /\ stderr = << >>
    /\ exitCode = -1

\* os.Exit(code): the process ends at once, deferred calls do not run.
Exit(code) ==
    /\ exitCode' = code
    /\ pc' = "exited"

\* log.Fatalf: the message on standard error, then os.Exit(1).
Fatalf(msg) ==
    /\ stderr' = Append(stderr, msg)
    /\ Exit(1)

\* A run-time panic: the message on standard error, exit status 2.
Panic(msg) ==
    /\ stderr' = Append(stderr, msg)
    /\ Exit(2)

\* main returns: the deferred resp.Body.Close() runs, the exit status is 0.
Return ==
    /\ respBody' = "closed"
    /\ exitCode' = 0
    /\ pc' = "exited"

\* Lines 32-37: flag.Parse() sets the flags the command line gives and
\* leaves the others at their defaults; the arguments after the flags are
\* the header arguments.
FlagParse ==
    /\ pc = "flags"
    /\ urlStr' \in UrlPool
    /\ method' \in MethodPool
    /\ reqBodyFile' \in FilePool
    /\ followRedirects' \in BOOLEAN
    /\ authStr' \in AuthPool
    /\ args' \in ArgsPool
    /\ pc' = "start"
    /\ UNCHANGED << file, auth, reqParams, i, req, nreq, elapsed, hops, resp,
                    respBody, body, data, out, stderr, exitCode >>

\* Lines 39-50: the usage error, then url.Parse.
CheckUrl ==
    /\ pc = "start"
    /\ IF urlStr = << >> THEN
           /\ out' = Append(out, [t |-> "usage"])
           /\ Exit(1)
           /\ UNCHANGED stderr
       ELSE IF UrlParseErr(urlStr) THEN
           /\ Fatalf("Error: Invalid URL")
           /\ UNCHANGED out
       ELSE
           /\ pc' = "file"
           /\ UNCHANGED << out, stderr, exitCode >>
    /\ UNCHANGED << flags, file, auth, reqParams, i, req, nreq, elapsed, hops, resp,
                    respBody, body, data >>

\* Lines 53-60: os.Open of the body file; whether it opens is the file
\* system's choice.
OpenFile ==
    /\ pc = "file"
    /\ IF reqBodyFile = << >> THEN
           /\ pc' = "auth"
           /\ UNCHANGED << file, stderr, exitCode >>
       ELSE \E opened \in BOOLEAN :
           IF opened THEN
               /\ file' = "open"
               /\ pc' = "auth"
               /\ UNCHANGED << stderr, exitCode >>
           ELSE
               /\ Fatalf("Error: Could not read file")
               /\ UNCHANGED file
    /\ UNCHANGED << flags, auth, reqParams, i, req, nreq, elapsed, hops, resp,
                    respBody, body, data, out >>

\* Lines 63-70: the credentials, split at the first colon.
ParseAuth ==
    /\ pc = "auth"
    /\ IF authStr = << >> THEN
           /\ pc' = "params"
           /\ UNCHANGED << auth, stderr, exitCode >>
       ELSE LET authParts == SplitN2(authStr)
            IN  IF Len(authParts) # 2 THEN
                    /\ Fatalf("Error: Invalid auth credentials")
                    /\ UNCHANGED auth
                ELSE
                    /\ auth' = [nil |-> FALSE, Username |-> authParts[1],
                                Password |-> authParts[2]]
                    /\ pc' = "params"
                    /\ UNCHANGED << stderr, exitCode >>
    /\ UNCHANGED << flags, file, reqParams, i, req, nreq, elapsed, hops, resp,
                    respBody, body, data, out >>

\* Lines 72-77: the RequestParams literal; Headers is not set, it is nil.
BuildParams ==
    /\ pc = "params"
    /\ reqParams' = [Method |-> method, FollowRedirects |-> followRedirects,
                     Auth |-> auth, Headers |-> NilHeader]
    /\ i' = 1
    /\ pc' = "headers"
    /\ UNCHANGED << flags, file, auth, req, nreq, elapsed, hops, resp, respBody,
                    body, data, out, stderr, exitCode >>

\* Lines 80-87, one turn of the loop: a header argument is split at its
\* first colon and set on reqParams.Headers; Set on a nil map panics.
AddHeader ==
    /\ pc = "headers"
    /\ i <= Len(args)
    /\ LET headerParts == SplitN2(args[i])
       IN  IF Len(headerParts) # 2 THEN
               /\ Fatalf("Error: Invalid header")
               /\ UNCHANGED << reqParams, i >>
           ELSE IF reqParams.Headers.nil THEN
               /\ Panic("panic: assignment to entry in nil map")
               /\ UNCHANGED << reqParams, i >>
           ELSE
               /\ reqParams' = [reqParams EXCEPT !.Headers =
                      HeaderSet(@, TrimSpace(headerParts[1]), TrimSpace(headerParts[2]))]
               /\ i' = i + 1
               /\ UNCHANGED << pc, stderr, exitCode >>
    /\ UNCHANGED << flags, file, auth, req, nreq, elapsed, hops, resp, respBody,
                    body, data, out >>

\* Lines 90-93: http.NewRequest; an empty method means GET.
NewRequest ==
    /\ pc = "headers"
    /\ i > Len(args)
    /\ IF ~ValidMethod(reqParams.Method) \/ UrlParseErr(urlStr) THEN
           /\ Fatalf("Error creating request object")
           /\ UNCHANGED req
       ELSE
           /\ req' = [Method |-> IF reqParams.Method = << >> THEN << "GET" >>
                                 ELSE reqParams.Method,
                      Body |-> file # "nil",
                      Header |-> EmptyHeader]
           /\ pc' = "copy"
           /\ UNCHANGED << stderr, exitCode >>
    /\ UNCHANGED << flags, file, auth, reqParams, i, nreq, elapsed, hops, resp,
                    respBody, body, data, out >>

RECURSIVE SetAll(_, _)
SetAll(h, pairs) ==
    IF pairs = { } THEN h
    ELSE LET p == CHOOSE q \in pairs : TRUE
         IN  SetAll(HeaderSet(h, p[1], p[2]), pairs \ { p })

\* Lines 96-98: every header of reqParams.Headers is set on the request
\* (ranging over a nil map does nothing).
CopyHeaders ==
    /\ pc = "copy"
    /\ req' = [req EXCEPT !.Header = SetAll(@, reqParams.Headers.m)]
    /\ pc' = "setauth"
    /\ UNCHANGED << flags, file, auth, reqParams, i, nreq, elapsed, hops, resp,
                    respBody, body, data, out, stderr, exitCode >>

\* Line 102: "Basic " and the base64 of Username + ":" + Password.
BasicAuth(a) ==
    << "Basic " >> \o EncodeToString(Bytes(a.Username \o << ":" >> \o a.Password))

\* Lines 101-104: the Authorization header, set after the explicit headers.
SetAuth ==
    /\ pc = "setauth"
    /\ req' = IF reqParams.Auth.nil THEN req
              ELSE [req EXCEPT !.Header =
                       HeaderSet(@, << "Authorization" >>, BasicAuth(reqParams.Auth))]
    /\ pc' = "do"
    /\ UNCHANGED << flags, file, auth, reqParams, i, nreq, elapsed, hops, resp,
                    respBody, body, data, out, stderr, exitCode >>

(***************************************************************************)
(* client.Do: the exchange, under Client.Timeout                           *)
(***************************************************************************)
\* A policy that follows every redirect, whatever the flag.
CheckRedirect_always == "nil"

\* A policy with the flag's sense inverted.
CheckRedirect_inverted ==
    IF reqParams.FollowRedirects THEN "ErrUseLastResponse" ELSE "nil"

\* Lines 109-114: the client's CheckRedirect.
CheckRedirect ==
    IF ~reqParams.FollowRedirects THEN "ErrUseLastResponse" ELSE "nil"

\* The transport closes the request's body once it has been handed to it.
CloseRequestBody == IF file = "open" THEN "closed" ELSE file

\* One round trip that the server answers with r after d clock steps.  A
\* redirect that CheckRedirect accepts is followed by another round trip;
\* any other response is what client.Do returns (with ErrUseLastResponse,
\* the redirect itself, its body open).
RoundTrip(r, d) ==
    /\ pc = "do"
    /\ elapsed < Deadline
    /\ elapsed + d <= Deadline
    /\ nreq' = nreq + 1
    /\ file' = CloseRequestBody
    /\ elapsed' = elapsed + d
    /\ hops' = Append(hops, r)
    /\ IF IsRedirect(r) /\ CheckRedirect = "nil" THEN
           UNCHANGED << pc, resp, respBody >>
       ELSE
           /\ resp' = r
           /\ respBody' = "open"
           /\ pc' = "status"
    /\ UNCHANGED << flags, auth, reqParams, i, req, body, data, out, stderr, exitCode >>

\* Lines 119-121: a round trip fails (DNS, connection, TLS).
RoundTripErr ==
    /\ pc = "do"
    /\ elapsed < Deadline
    /\ nreq' = nreq + 1
    /\ file' = CloseRequestBody
    /\ Fatalf("Error making request")
    /\ UNCHANGED << flags, auth, reqParams, i, req, elapsed, hops, resp, respBody,
                    body, data, out >>

\* A client that starts the exchange again when the timeout passes.
DoTimeout_retry ==
    /\ pc = "do"
    /\ elapsed = Deadline
    /\ elapsed' = 0
    /\ UNCHANGED << flags, pc, file, auth, reqParams, i, req, nreq, hops, resp,
                    respBody, body, data, out, stderr, exitCode >>

\* Lines 119-121: Client.Timeout has passed before the exchange is over.
DoTimeout ==
    /\ pc = "do"
    /\ elapsed = Deadline
    /\ Fatalf("Error making request")
    /\ UNCHANGED << flags, file, auth, reqParams, i, req, nreq, elapsed, hops, resp,
                    respBody, body, data, out >>

(***************************************************************************)
(* Rendering the response                                                  *)
(***************************************************************************)
\* Line 125
PrintStatus ==
    /\ pc = "status"
    /\ out' = Append(out, [t |-> "status", major |-> resp.ProtoMajor,
                           minor |-> resp.ProtoMinor, status |-> resp.Status])
    /\ pc' = "respheaders"
    /\ UNCHANGED << flags, file, auth, reqParams, i, req, nreq, elapsed, hops, resp,
                    respBody, body, data, stderr, exitCode >>

PrintedHeaders == { out[j].k : j \in { x \in 1..Len(out) : out[x].t = "header" } }

\* Lines 128-130, one turn of the loop: ranging over the response's header
\* map visits every name once, in an order the run does not fix.
PrintHeader(k) ==
    /\ pc = "respheaders"
    /\ k \in DOMAIN resp.Header \ PrintedHeaders
    /\ out' = Append(out, [t |-> "header", k |-> k, v |-> resp.Header[k][1]])
    /\ UNCHANGED << flags, pc, file, auth, reqParams, i, req, nreq, elapsed, hops,
                    resp, respBody, body, data, stderr, exitCode >>

\* Line 131
PrintBlank ==
    /\ pc = "respheaders"
    /\ DOMAIN resp.Header \subseteq PrintedHeaders
    /\ out' = Append(out, [t |-> "blank"])
    /\ pc' = "read"
    /\ UNCHANGED << flags, file, auth, reqParams, i, req, nreq, elapsed, hops, resp,
                    respBody, body, data, stderr, exitCode >>

\* Line 134: the body is read to its end, d clock steps later.
ReadAll(b, d) ==
    /\ pc = "read"
    /\ elapsed + d <= Deadline
    /\ elapsed' = elapsed + d
    /\ body' = b
    /\ pc' = "unmarshal"
    /\ UNCHANGED << flags, file, auth, reqParams, i, req, nreq, hops, resp, respBody,
                    data, out, stderr, exitCode >>

\* Lines 135-137: the read fails (the stream breaks, or Client.Timeout
\* passes before the body ends).
ReadAllErr ==
    /\ pc = "read"
    /\ Fatalf("Error reading response body")
    /\ UNCHANGED << flags, file, auth, reqParams, i, req, nreq, elapsed, hops, resp,
                    respBody, body, data, out >>

\* Lines 139-146
JsonUnmarshal ==
    /\ pc = "unmarshal"
    /\ LET u == Unmarshal(body)
       IN  IF u.err # "" THEN
               /\ out' = Append(out, [t |-> "error", msg |-> "Error unmarshaling JSON:"])
               /\ Return
               /\ UNCHANGED data
           ELSE
               /\ data' = u.data
               /\ pc' = "marshal"
               /\ UNCHANGED << out, respBody, exitCode >>
    /\ UNCHANGED << flags, file, auth, reqParams, i, req, nreq, elapsed, hops, resp,
                    body, stderr >>

\* Lines 149-156: a map of decoded values always marshals.
JsonMarshal ==
    /\ pc = "marshal"
    /\ out' = Append(out, [t |-> "body", lines |-> MarshalIndent(data)])
    /\ Return
    /\ UNCHANGED << flags, file, auth, reqParams, i, req, nreq, elapsed, hops, resp,
                    body, data, stderr >>

Next ==
    \/ FlagParse
    \/ CheckUrl
    \/ OpenFile
    \/ ParseAuth
    \/ BuildParams
    \/ AddHeader
    \/ NewRequest
    \/ CopyHeaders
    \/ SetAuth
    \/ \E r \in ResponsePool, d \in 1..Deadline : RoundTrip(r, d)
    \/ RoundTripErr
    \/ DoTimeout
    \/ PrintStatus
    \/ \E k \in DOMAIN resp.Header : PrintHeader(k)
    \/ PrintBlank
    \/ \E b \in BodyPool, d \in 0..Deadline : ReadAll(b, d)
    \/ ReadAllErr
    \/ JsonUnmarshal
    \/ JsonMarshal

Spec == Init /\ [][Next]_vars

\* The process keeps running until it exits.
LiveSpec == Spec /\ WF_vars(Next)

(***************************************************************************)
(* Properties                                                              *)
(***************************************************************************)
Exited == pc = "exited"
ValidUrl == urlStr # << >> /\ ~UrlParseErr(urlStr)
DefaultFlags ==
    /\ method = DefaultMethod
    /\ reqBodyFile = << >>
    /\ ~followRedirects
    /\ authStr = << >>
    /\ args = << >>
HasColon(s) == \E j \in 1..Len(s) : s[j] = ":"
ArgsWellFormed == \A j \in 1..Len(args) : HasColon(args[j])
Authorization == << "Authorization" >>
Last(s) == s[Len(s)]
StatusLine(r) ==
    [t |-> "status", major |-> r.ProtoMajor, minor |-> r.ProtoMinor, status |-> r.Status]
HasLine(kind) == \E j \in 1..Len(out) : out[j].t = kind
Logged(msg) == \E j \in 1..Len(stderr) : stderr[j] = msg

\* C1: with a URL that parses and every other flag at its default, the run
\* issues exactly one request: never more than one, exactly one once the
\* process has ended, and that request is a GET with no body and no
\* Authorization header.
C1_DefaultRunSendsOneGet ==
    (ValidUrl /\ DefaultFlags) =>
        /\ nreq <= 1
        /\ (Exited => nreq = 1)
        /\ (nreq = 1 =>
               /\ req.Method = << "GET" >>
               /\ ~req.Body
               /\ HeaderGet(req.Header, Authorization) = { })

C1_Witness ==
    /\ ValidUrl /\ DefaultFlags
    /\ Exited /\ exitCode = 0
    /\ nreq = 1
    /\ IsRedirect(hops[1])

\* C2: a missing -url, a body file that does not open, a non-empty -auth
\* with no colon or a header argument with no colon keeps the run within
\* input validation: no request is ever issued, the process ends with a
\* non-zero status, and a missing -url ends it with status 1 after the usage
\* text.
InputRejected ==
    \/ urlStr = << >>
    \/ Logged("Error: Could not read file")
    \/ (authStr # << >> /\ ~HasColon(authStr))
    \/ ~ArgsWellFormed

C2_FailFast ==
    /\ (pc # "flags" /\ InputRejected) =>
           /\ nreq = 0
           /\ pc \in { "start", "file", "auth", "params", "headers", "exited" }
           /\ (Exited => exitCode \in { 1, 2 })
    /\ (urlStr = << >> /\ Exited) =>
           (exitCode = 1 /\ out = << [t |-> "usage"] >> /\ stderr = << >>)

C2_Witness ==
    /\ Exited /\ exitCode = 1 /\ nreq = 0
    /\ file = "open"
    /\ authStr # << >> /\ ~HasColon(authStr)
    /\ stderr = << "Error: Invalid auth credentials" >>

\* The explicit headers the arguments ask for: the trimmed name and value of
\* every argument that is the last one with its name.
ArgName(j) == TrimSpace(SplitN2(args[j])[1])
ArgValue(j) == TrimSpace(SplitN2(args[j])[2])
LastWriteWins ==
    { << ArgName(j), ArgValue(j) >> :
        j \in { x \in 1..Len(args) : \A y \in (x + 1)..Len(args) : ArgName(y) # ArgName(x) } }

\* C3: a run whose inputs are all well formed and that has header arguments
\* reaches the send step, and the request sent carries the last-write-wins
\* mapping of the trimmed (name, value) pairs of its arguments.
C3_HeadersSent ==
    (Exited /\ i >= 1 /\ args # << >> /\ ArgsWellFormed /\ ValidMethod(method)) =>
        /\ nreq >= 1
        /\ \A p \in LastWriteWins : p[2] \in HeaderGet(req.Header, p[1])

B64Value(c) == CHOOSE n \in 0..63 : B64Alphabet[n + 1] = c

\* base64 decoding, group by group.
RECURSIVE DecodeString(_)
DecodeString(s) ==
    IF Len(s) < 4 THEN << >>
    ELSE LET n1 == B64Value(s[1])
             n2 == B64Value(s[2])
         IN  IF s[3] = "=" THEN << n1 * 4 + n2 \div 16 >>
             ELSE IF s[4] = "=" THEN
                 << n1 * 4 + n2 \div 16, (n2 % 16) * 16 + B64Value(s[3]) \div 4 >>
             ELSE << n1 * 4 + n2 \div 16,
                     (n2 % 16) * 16 + B64Value(s[3]) \div 4,
                     (B64Value(s[3]) % 4) * 64 + B64Value(s[4]) >>
                  \o DecodeString(SubSeq(s, 5, Len(s)))

\* C4: an -auth value with a colon is split at its first colon only (the
\* user name holds no colon, and user name, colon and password make up the
\* value again), and the request sent carries exactly one Authorization
\* value: "Basic " followed by the base64 encoding of the -auth value, which
\* decodes to the bytes of that value.
C4_BasicAuthHeader ==
    (nreq >= 1 /\ HasColon(authStr)) =>
        /\ ~reqParams.Auth.nil
        /\ ~HasColon(reqParams.Auth.Username)
        /\ reqParams.Auth.Username \o << ":" >> \o reqParams.Auth.Password = authStr
        /\ HeaderGet(req.Header, Authorization)
               = { << "Basic " >> \o EncodeToString(Bytes(authStr)) }
        /\ \A v \in HeaderGet(req.Header, Authorization) :
               v[1] = "Basic " /\ DecodeString(Tail(v)) = Bytes(authStr)

C4_Witness ==
    /\ nreq >= 1
    /\ authStr = << ":", ":" >>
    /\ reqParams.Auth.Username = << >>
    /\ reqParams.Auth.Password = << ":" >>

UserAuthorization ==
    \E j \in 1..Len(args) : HasColon(args[j]) /\ Canon(ArgName(j)) = Authorization

\* C5: a run given both credentials and an Authorization header argument
\* sends a request, and that request carries the synthesized Basic value,
\* not the argument's value.
C5_BasicAuthWins ==
    (Exited /\ i >= 1 /\ ~reqParams.Auth.nil /\ UserAuthorization
       /\ ArgsWellFormed /\ ValidMethod(method)) =>
        /\ nreq >= 1
        /\ HeaderGet(req.Header, Authorization) = { BasicAuth(reqParams.Auth) }

\* C6: with follow false, a redirect answered to the request is the only
\* response of the run: no further request is issued, and the status line
\* and header lines printed are that redirect's.  With follow true, the
\* only status line ever printed is that of the last response received,
\* which is not a redirect; no earlier hop's status line is printed.
C6_RedirectPolicy ==
    /\ (~followRedirects /\ hops # << >> /\ IsRedirect(hops[1])) =>
           /\ nreq = 1 /\ Len(hops) = 1
           /\ (pc \in { "respheaders", "read", "unmarshal", "marshal" } =>
                  out[1] = StatusLine(hops[1]))
           /\ \A j \in 1..Len(out) :
                  /\ out[j].t = "status" => out[j] = StatusLine(hops[1])
                  /\ out[j].t = "header" =>
                         /\ out[j].k \in DOMAIN hops[1].Header
                         /\ out[j].v = hops[1].Header[out[j].k][1]
           /\ (pc = "read" => PrintedHeaders = DOMAIN hops[1].Header)
    /\ (followRedirects /\ hops # << >>) =>
           /\ (pc \in { "respheaders", "read", "unmarshal", "marshal" } =>
                  out[1] = StatusLine(Last(hops)))
           /\ \A j \in 1..Len(out) :
                  out[j].t = "status" =>
                      /\ j = 1
                      /\ ~IsRedirect(Last(hops))
                      /\ out[j] = StatusLine(Last(hops))
                      /\ \A h \in 1..(Len(hops) - 1) : IsRedirect(hops[h])

C6_Witness ==
    /\ followRedirects
    /\ Len(hops) >= 2
    /\ Exited /\ exitCode = 0
    /\ out[1] = StatusLine(Last(hops))

RECURSIVE Flatten(_)
Flatten(lines) ==
    IF lines = << >> THEN << >> ELSE Head(lines).toks \o Flatten(Tail(lines))

\* C7: a body that is valid JSON, whatever its top-level value, is printed
\* re-serialized (the printed text parses to the value the body decodes to)
\* and no parse error is reported.
C7_ValidJsonPrinted ==
    (Exited /\ exitCode = 0 /\ Parse(body).ok) =>
        /\ ~HasLine("error")
        /\ Last(out).t = "body"
        /\ Parse(Flatten(Last(out).lines)).ok
        /\ Decode(Parse(Flatten(Last(out).lines)).v) = Decode(Parse(body).v)

\* The step taken with a body that is not valid JSON: it ends the process
\* with status 0, and what the run has then printed is the status line, one
\* line per response header name, a blank line and the parse-error message.
C8_InvalidJsonStep ==
    (pc = "unmarshal" /\ ~Parse(body).ok) =>
        LET n == Cardinality(DOMAIN resp.Header)
        IN  /\ pc' = "exited"
            /\ exitCode' = 0
            /\ Len(out') = n + 3
            /\ out'[1] = StatusLine(resp)
            /\ \A j \in 2..(n + 1) : out'[j].t = "header"
            /\ { out'[j].k : j \in 2..(n + 1) } = DOMAIN resp.Header
            /\ out'[n + 2] = [t |-> "blank"]
            /\ out'[n + 3].t = "error"

\* C8: when the body read is not valid JSON, the run prints, in this order,
\* the status line, one line per response header name, a blank line and the
\* parse-error message, prints no body line, and ends with status 0 by
\* returning from main: every step of the run is such a step.
C8_InvalidJson == [][C8_InvalidJsonStep]_vars

C8_Witness ==
    /\ Exited /\ exitCode = 0
    /\ body = << "not", "json" >>
    /\ Cardinality(DOMAIN resp.Header) = 2
    /\ Last(out).t = "error"

\* C9: at process end the body file's handle, if one was opened, and the
\* response body, if one was obtained, have been closed.
C9_ResourcesReleased ==
    Exited => (file # "open" /\ respBody # "open")

\* C10: every run ends; the whole exchange stays within the one timeout (the
\* clock never passes the deadline and no more requests are issued than
\* clock steps fit in it); an exchange that is still redirecting when the
\* timeout passes ends the process with status 1; and after an error no
\* request is issued.
C10_Terminates ==
    /\ <>Exited
    /\ [](elapsed <= Deadline /\ nreq <= Deadline)
    /\ ((pc = "do" /\ elapsed = Deadline) ~> (Exited /\ exitCode = 1))
    /\ [][stderr # << >> => nreq' = nreq]_vars

C10_Witness ==
    /\ Exited /\ exitCode = 1
    /\ followRedirects
    /\ elapsed = Deadline
    /\ Len(hops) = Deadline
    /\ \A h \in 1..Len(hops) : IsRedirect(hops[h])
    /\ stderr = << "Error making request" >>

=============================================================================
